---- MODULE Spec2Model ----
(***************************************************************************)
(* Elliptic-curve arithmetic of lab4/ecc_logic.py: modular arithmetic      *)
(* (extended Euclid, modular inverse, Legendre symbol, Tonelli-Shanks),    *)
(* the Point group law, the brute-force order search, and the curve        *)
(* analysis (validate_curve, find_points_on_curve).                        *)
(*                                                                         *)
(* Python values are encoded as follows.                                   *)
(*   - an optional integer (a coordinate, the order) is None == <<>> or    *)
(*     Some(v) == <<v>>;                                                   *)
(*   - a call's outcome is Return(v) or Raise(e, m), e the exception class  *)
(*     and m its message (the raise statement it comes from);              *)
(*   - a Point is the record of its five attributes x, y, a, b, p;         *)
(*   - a list is a sequence.                                               *)
(***************************************************************************)
EXTENDS Integers, Sequences, FiniteSets

VARIABLES
    op,             \* the operation applied last ("init" before any)
    args,           \* its arguments, in the order of the Python signature
    ret,            \* its outcome: Return(value) or Raise(exception, message)
    acc,            \* the Point the caller holds (the operand of the next call)
    pc,             \* find_order_brute_force: position in the function body
    G,              \* find_order_brute_force: its parameter
    current_point,  \* find_order_brute_force: local current_point
    order           \* find_order_brute_force: local order

vars == <<op, args, ret, acc, pc, G, current_point, order>>

---------------------------------------------------------------------------
(* Bounds of the model. *)

\* moduli p range over 1..MaxP in the point and order specifications
MaxP == 7
\* scalars k range over -1..MaxK
MaxK == 9
\* moduli of the modular-arithmetic specification range over 1..MaxMod
MaxMod == 17
\* first arguments of the modular-arithmetic functions range over -MaxArg..MaxArg
MaxArg == 20
\* moduli p range over 1..MaxPairP where two points of any two curves meet
MaxPairP == 5
\* max_total_points ranges over 0..MaxTotal
MaxTotal == 5

---------------------------------------------------------------------------
(* Python values. *)

None == <<>>
Some(v) == <<v>>

Return(v) == [err |-> "", val |-> v]
Raise(e, m) == [err |-> e, msg |-> m]
Raised(r) == r.err # ""

\* Python's floor division a // b (b # 0); the quotient is rounded down for
\* either sign of b.
PyDiv(a, b) == IF b > 0 THEN a \div b ELSE (0 - a) \div (0 - b)

\* Python's a % b (b # 0): the remainder has the sign of b.
PyMod(a, b) == a - b * PyDiv(a, b)

\* Python's three-argument pow(base, e, m) for e >= 0 and m > 0.
RECURSIVE pow(_, _, _)
pow(base, e, m) == IF e = 0 THEN 1 % m ELSE (base * pow(base, e - 1, m)) % m

\* 1 << n
RECURSIVE shl1(_)
shl1(n) == IF n = 0 THEN 1 ELSE 2 * shl1(n - 1)

\* sorted(list(set(...))) of a finite set of integers: ascending, no duplicates.
RECURSIVE sorted(_)
sorted(S) ==
    IF S = {} THEN <<>>
    ELSE LET m == CHOOSE u \in S : \A w \in S : u <= w
         IN <<m>> \o sorted(S \ {m})

---------------------------------------------------------------------------
(* Modular arithmetic. *)

\* extended_gcd(a, b) -> <<d, x, y>>
RECURSIVE extended_gcd(_, _)
extended_gcd(a, b) ==
    IF a = 0 THEN <<b, 0, 1>>
    ELSE LET r == extended_gcd(PyMod(b, a), a)
             d == r[1]
             x1 == r[2]
             y1 == r[3]
         IN <<d, y1 - PyDiv(b, a) * x1, x1>>

\* mod_inv with the Bezout coefficient returned unreduced.
mod_inv_unreduced(a, m) ==
    LET r == extended_gcd(a, m)
    IN IF r[1] # 1 THEN Raise("ValueError", "no inverse") ELSE Return(r[2])

mod_inv(a, m) ==
    LET r == extended_gcd(a, m)
    IN IF r[1] # 1 THEN Raise("ValueError", "no inverse") ELSE Return(PyMod(r[2], m))

legendre_symbol(a, p) ==
    IF p <= 2 THEN Raise("ValueError", "p must be an odd prime")
    ELSE LET ls == pow(a % p, (p - 1) \div 2, p)
         IN Return(IF ls # p - 1 THEN ls ELSE -1)

\* p - 1 = Q * 2^S: the loop "while Q % 2 == 0", from <<Q, S>>.
RECURSIVE factor_twos(_, _)
factor_twos(Q, S) ==
    IF Q % 2 = 0 THEN factor_twos(Q \div 2, S + 1) ELSE <<Q, S>>

\* The search for a quadratic non-residue, from z.
RECURSIVE find_non_residue(_, _)
find_non_residue(z, p) ==
    IF legendre_symbol(z, p).val = -1 THEN Return(z)
    ELSE IF z + 1 >= p THEN Raise("RuntimeError", "no non-residue found")
    ELSE find_non_residue(z + 1, p)

\* "for i_pow in range(1, M)": the least i_pow with temp^(2^i_pow) = 1, else 0.
RECURSIVE least_i(_, _, _, _)
least_i(temp, i_pow, M, p) ==
    IF i_pow >= M THEN 0
    ELSE LET t2 == pow(temp, 2, p)
         IN IF t2 = 1 THEN i_pow ELSE least_i(t2, i_pow + 1, M, p)

\* The main loop "while t != 1"; its value is R at the exit.
RECURSIVE ts_loop(_, _, _, _, _)
ts_loop(M, c, t, R, p) ==
    IF t = 1 THEN R
    ELSE LET i == least_i(t, 1, M, p)
         IN IF i = 0 THEN R
            ELSE LET bb == pow(c, shl1(M - i - 1), p)
                     c2 == pow(bb, 2, p)
                 IN ts_loop(i, c2, (t * c2) % p, (R * bb) % p, p)

\* tonelli_shanks with the main loop left after its initialisation.
tonelli_shanks_no_loop(n, p) ==
    IF p <= 2 THEN Raise("ValueError", "p must be an odd prime")
    ELSE LET n1 == n % p
         IN IF n1 = 0 THEN Return(<<0>>)
            ELSE IF legendre_symbol(n1, p).val # 1 THEN Return(<<>>)
            ELSE IF p % 4 = 3
                 THEN LET x == pow(n1, (p + 1) \div 4, p)
                      IN Return(sorted({x, p - x}))
            ELSE LET QS == factor_twos(p - 1, 0)
                     R == pow(n1, (QS[1] + 1) \div 2, p)
                 IN Return(sorted({R, p - R}))

tonelli_shanks(n, p) ==
    IF p <= 2 THEN Raise("ValueError", "p must be an odd prime")
    ELSE LET n1 == n % p
         IN IF n1 = 0 THEN Return(<<0>>)
            ELSE IF legendre_symbol(n1, p).val # 1 THEN Return(<<>>)
            ELSE IF p % 4 = 3
                 THEN LET x == pow(n1, (p + 1) \div 4, p)
                      IN Return(sorted({x, p - x}))
            ELSE LET QS == factor_twos(p - 1, 0)
                     zr == find_non_residue(2, p)
                 IN IF Raised(zr) THEN zr
                    ELSE LET R == ts_loop(QS[2], pow(zr.val, QS[1], p),
                                          pow(n1, QS[1], p),
                                          pow(n1, (QS[1] + 1) \div 2, p), p)
                         IN Return(sorted({R, p - R}))

---------------------------------------------------------------------------
(* class Point. *)

\* The attributes of a Point object, before any validation.
PointRec(x, y, a, b, p) == [x |-> x, y |-> y, a |-> a, b |-> b, p |-> p]

\* Point(None, None, a, b, p): the point at infinity of the curve.
Infinity(a, b, p) == PointRec(None, None, a, b, p)

is_on_curve(self) ==
    IF self.x = None /\ self.y = None THEN TRUE
    ELSE IF self.x = None \/ self.y = None THEN FALSE
    ELSE LET left == pow(self.y[1], 2, self.p)
             right == (pow(self.x[1], 3, self.p) + self.a * self.x[1] + self.b)
                          % self.p
         IN left = right

\* Point.__init__ without the test of the modulus.
Point_init_no_modulus_check(x, y, a, b, p) ==
    LET self == PointRec(x, y, a, b, p)
    IN IF x = None /\ y = None THEN Return(self)
       ELSE IF ~is_on_curve(self)
            THEN Raise("ValueError", "point not on curve")
       ELSE Return(self)

\* Point.__init__: the new object, or the ValueError it raises.
Point_init(x, y, a, b, p) ==
    LET self == PointRec(x, y, a, b, p)
    IN IF x = None /\ y = None THEN Return(self)
       ELSE IF p <= 2 THEN Raise("ValueError", "p must be > 2")
       ELSE IF ~is_on_curve(self)
            THEN Raise("ValueError", "point not on curve")
       ELSE Return(self)

\* Point.__eq__ for another Point.
Point_eq(self, other) ==
    /\ self.x = other.x
    /\ self.y = other.y
    /\ self.a = other.a
    /\ self.b = other.b
    /\ self.p = other.p

\* Point.__neg__
Point_neg(self) ==
    IF self.x = None THEN Return(self)
    ELSE Point_init(self.x, Some((0 - self.y[1]) % self.p), self.a, self.b, self.p)

\* The new point from the slope l = num / den, or the ValueError of mod_inv
\* or of the constructor.
chord(self, other, num, den) ==
    LET inv == mod_inv(den, self.p)
    IN IF Raised(inv) THEN inv
       ELSE LET l == (num * inv.val) % self.p
                x3 == (pow(l, 2, self.p) - self.x[1] - other.x[1]) % self.p
                y3 == (l * (self.x[1] - x3) - self.y[1]) % self.p
            IN Point_init(Some(x3), Some(y3), self.a, self.b, self.p)

\* Point.__add__ returning the point at infinity when self is the point at
\* infinity (the first operand instead of the second).
Point_add_identity_self(self, other) ==
    IF self.p # other.p \/ self.a # other.a \/ self.b # other.b
    THEN Raise("ValueError", "different curves")
    ELSE IF self.x = None THEN Return(self)
    ELSE IF other.x = None THEN Return(self)
    ELSE IF self.x = other.x /\ self.y[1] = (0 - other.y[1]) % self.p
    THEN Return(Infinity(self.a, self.b, self.p))
    ELSE IF self.x = other.x /\ self.y = other.y
    THEN IF self.y[1] = 0 THEN Return(Infinity(self.a, self.b, self.p))
         ELSE chord(self, other,
                    (3 * pow(self.x[1], 2, self.p) + self.a) % self.p,
                    (2 * self.y[1]) % self.p)
    ELSE chord(self, other,
               (other.y[1] - self.y[1]) % self.p,
               (other.x[1] - self.x[1]) % self.p)

\* Point.__add__ with y3 = l * (x2 - x3) - y1: the second operand's x in
\* place of the first's.
Point_add_y3_from_other(self, other) ==
    IF self.p # other.p \/ self.a # other.a \/ self.b # other.b
    THEN Raise("ValueError", "different curves")
    ELSE IF self.x = None THEN Return(other)
    ELSE IF other.x = None THEN Return(self)
    ELSE IF self.x = other.x /\ self.y[1] = (0 - other.y[1]) % self.p
    THEN Return(Infinity(self.a, self.b, self.p))
    ELSE LET dbl == self.x = other.x /\ self.y = other.y
             num == IF dbl THEN (3 * pow(self.x[1], 2, self.p) + self.a) % self.p
                    ELSE (other.y[1] - self.y[1]) % self.p
             den == IF dbl THEN (2 * self.y[1]) % self.p
                    ELSE (other.x[1] - self.x[1]) % self.p
             inv == mod_inv(den, self.p)
         IN IF dbl /\ self.y[1] = 0 THEN Return(Infinity(self.a, self.b, self.p))
            ELSE IF Raised(inv) THEN inv
            ELSE LET l == (num * inv.val) % self.p
                     x3 == (pow(l, 2, self.p) - self.x[1] - other.x[1]) % self.p
                     y3 == (l * (other.x[1] - x3) - self.y[1]) % self.p
                 IN Return(PointRec(Some(x3), Some(y3), self.a, self.b, self.p))

\* Point.__add__ with the two cases of the point at infinity placed before
\* the comparison of the curves.
Point_add_identity_first(self, other) ==
    IF self.x = None THEN Return(other)
    ELSE IF other.x = None THEN Return(self)
    ELSE IF self.p # other.p \/ self.a # other.a \/ self.b # other.b
    THEN Raise("ValueError", "different curves")
    ELSE IF self.x = other.x /\ self.y[1] = (0 - other.y[1]) % self.p
    THEN Return(Infinity(self.a, self.b, self.p))
    ELSE IF self.x = other.x /\ self.y = other.y
    THEN IF self.y[1] = 0 THEN Return(Infinity(self.a, self.b, self.p))
         ELSE chord(self, other,
                    (3 * pow(self.x[1], 2, self.p) + self.a) % self.p,
                    (2 * self.y[1]) % self.p)
    ELSE chord(self, other,
               (other.y[1] - self.y[1]) % self.p,
               (other.x[1] - self.x[1]) % self.p)

\* Point.__add__ with the tangent slope 3x^2 / 2y: the coefficient a left
\* out of the numerator of the doubling.
Point_add_tangent_without_a(self, other) ==
    IF self.p # other.p \/ self.a # other.a \/ self.b # other.b
    THEN Raise("ValueError", "different curves")
    ELSE IF self.x = None THEN Return(other)
    ELSE IF other.x = None THEN Return(self)
    ELSE IF self.x = other.x /\ self.y[1] = (0 - other.y[1]) % self.p
    THEN Return(Infinity(self.a, self.b, self.p))
    ELSE LET dbl == self.x = other.x /\ self.y = other.y
             num == IF dbl THEN (3 * pow(self.x[1], 2, self.p)) % self.p
                    ELSE (other.y[1] - self.y[1]) % self.p
             den == IF dbl THEN (2 * self.y[1]) % self.p
                    ELSE (other.x[1] - self.x[1]) % self.p
             inv == mod_inv(den, self.p)
         IN IF dbl /\ self.y[1] = 0 THEN Return(Infinity(self.a, self.b, self.p))
            ELSE IF Raised(inv) THEN inv
            ELSE LET l == (num * inv.val) % self.p
                     x3 == (pow(l, 2, self.p) - self.x[1] - other.x[1]) % self.p
                     y3 == (l * (self.x[1] - x3) - self.y[1]) % self.p
                 IN Return(PointRec(Some(x3), Some(y3), self.a, self.b, self.p))

\* Point.__add__ for another Point.
Point_add(self, other) ==
    IF self.p # other.p \/ self.a # other.a \/ self.b # other.b
    THEN Raise("ValueError", "different curves")
    ELSE IF self.x = None THEN Return(other)
    ELSE IF other.x = None THEN Return(self)
    ELSE IF self.x = other.x /\ self.y[1] = (0 - other.y[1]) % self.p
    THEN Return(Infinity(self.a, self.b, self.p))
    ELSE IF self.x = other.x /\ self.y = other.y
    THEN IF self.y[1] = 0 THEN Return(Infinity(self.a, self.b, self.p))
         ELSE chord(self, other,
                    (3 * pow(self.x[1], 2, self.p) + self.a) % self.p,
                    (2 * self.y[1]) % self.p)
    ELSE chord(self, other,
               (other.y[1] - self.y[1]) % self.p,
               (other.x[1] - self.x[1]) % self.p)

\* The loop of Point.__rmul__ with the parity test inverted: current is added
\* on the zero bits of k.
RECURSIVE rmul_loop_inverted_parity(_, _, _)
rmul_loop_inverted_parity(k, result, current) ==
    IF k <= 0 THEN Return(result)
    ELSE LET r1 == IF k % 2 = 0 THEN Point_add(result, current) ELSE Return(result)
         IN IF Raised(r1) THEN r1
            ELSE LET c1 == Point_add(current, current)
                 IN IF Raised(c1) THEN c1
                    ELSE rmul_loop_inverted_parity(k \div 2, r1.val, c1.val)

\* The loop of Point.__rmul__ with current doubled before it is added.
RECURSIVE rmul_loop_double_first(_, _, _)
rmul_loop_double_first(k, result, current) ==
    IF k <= 0 THEN Return(result)
    ELSE LET c1 == Point_add(current, current)
         IN IF Raised(c1) THEN c1
            ELSE LET r1 == IF k % 2 = 1 THEN Point_add(result, c1.val)
                           ELSE Return(result)
                 IN IF Raised(r1) THEN r1
                    ELSE rmul_loop_double_first(k \div 2, r1.val, c1.val)

\* The loop "while k > 0" of Point.__rmul__, from <<k, result, current>>.
RECURSIVE rmul_loop(_, _, _)
rmul_loop(k, result, current) ==
    IF k <= 0 THEN Return(result)
    ELSE LET r1 == IF k % 2 = 1 THEN Point_add(result, current) ELSE Return(result)
         IN IF Raised(r1) THEN r1
            ELSE LET c1 == Point_add(current, current)
                 IN IF Raised(c1) THEN c1
                    ELSE rmul_loop(k \div 2, r1.val, c1.val)

\* Point.__rmul__ for an integer k.
Point_rmul(k, self) ==
    IF k < 0 THEN Raise("ValueError", "scalar must be non-negative")
    ELSE IF k = 0 THEN Return(Infinity(self.a, self.b, self.p))
    ELSE IF self.x = None THEN Return(Infinity(self.a, self.b, self.p))
    ELSE rmul_loop(k, Infinity(self.a, self.b, self.p), self)

---------------------------------------------------------------------------
(* Curve analysis. *)

\* int(math.sqrt(p)) for p >= 0
isqrt(p) == CHOOSE r \in 0..p : r * r <= p /\ (r + 1) * (r + 1) > p

\* Line 238: trial division by the odd numbers 3, 5, ... up to int(sqrt(p)).
is_prime(p) ==
    IF p > 2 /\ p % 2 # 0
    THEN \A i \in {j \in 3..isqrt(p) : j % 2 = 1} : p % i # 0
    ELSE p = 2

\* validate_curve with a failed primality test made an invalid result.
validate_curve_prime_required(a, b, p) ==
    IF p <= 2 THEN <<FALSE, "p <= 2", FALSE>>
    ELSE IF ~is_prime(p) THEN <<FALSE, "not prime", TRUE>>
    ELSE IF (4 * pow(a, 3, p) + 27 * pow(b, 2, p)) % p = 0
         THEN <<FALSE, "singular", FALSE>>
    ELSE <<TRUE, "non-singular", FALSE>>

\* validate_curve(a, b, p) -> <<valid, reason, warned>>: the pair the function
\* returns and, third, whether it printed the warning that p may not be prime.
validate_curve(a, b, p) ==
    IF p <= 2 THEN <<FALSE, "p <= 2", FALSE>>
    ELSE LET warned == ~is_prime(p)
         IN IF (4 * pow(a, 3, p) + 27 * pow(b, 2, p)) % p = 0
            THEN <<FALSE, "singular", warned>>
            ELSE <<TRUE, "non-singular", warned>>

\* The loop "for y in roots" for one x, from the lists and the count so far:
\* the lists and the count after it, and whether the function returned in it.
RECURSIVE append_roots(_, _, _, _, _, _)
append_roots(points_x, points_y, count, x, roots, max_total_points) ==
    IF roots = <<>>
    THEN [points_x |-> points_x, points_y |-> points_y, count |-> count,
          returned |-> FALSE]
    ELSE LET px == Append(points_x, x)
             py == Append(points_y, Head(roots))
         IN IF count + 1 >= max_total_points
            THEN [points_x |-> px, points_y |-> py, count |-> count + 1,
                  returned |-> TRUE]
            ELSE append_roots(px, py, count + 1, x, Tail(roots),
                              max_total_points)

\* The loop "for x in range(x_limit)" from x on; an exception of
\* tonelli_shanks is caught, printed, and the x is skipped.
RECURSIVE points_loop(_, _, _, _, _, _, _, _, _)
points_loop(x, points_x, points_y, count, a, b, p, x_limit, max_total_points) ==
    IF x >= x_limit THEN <<points_x, points_y>>
    ELSE LET rhs == (pow(x, 3, p) + a * x + b) % p
             roots == tonelli_shanks(rhs, p)
         IN IF Raised(roots)
            THEN points_loop(x + 1, points_x, points_y, count,
                             a, b, p, x_limit, max_total_points)
            ELSE LET r == append_roots(points_x, points_y, count, x,
                                       roots.val, max_total_points)
                 IN IF r.returned THEN <<r.points_x, r.points_y>>
                    ELSE points_loop(x + 1, r.points_x, r.points_y, r.count,
                                     a, b, p, x_limit, max_total_points)

\* find_points_on_curve with the loop over range(1, x_limit).
find_points_on_curve_from_one(a, b, p, x_limit, max_total_points) ==
    IF p <= 2 THEN <<<<>>, <<>>>>
    ELSE points_loop(1, <<>>, <<>>, 0, a, b, p, x_limit, max_total_points)

\* find_points_on_curve(a, b, p, x_limit, max_total_points)
\*     -> <<points_x, points_y>>
find_points_on_curve(a, b, p, x_limit, max_total_points) ==
    IF p <= 2 THEN <<<<>>, <<>>>>
    ELSE points_loop(0, <<>>, <<>>, 0, a, b, p, x_limit, max_total_points)

---------------------------------------------------------------------------
(* Input domains. *)

\* The integer coordinates passed for modulus p: the residues 0..p-1 and, as
\* the application passes the user's integers unreduced, the representatives
\* -1 and p.
Coords(p) == (-1)..p

OptCoords(p) == {None} \cup {Some(v) : v \in Coords(p)}

\* Curve parameters as the application passes them: a and b reduced modulo p.
Curves == {c \in (0..(MaxP - 1)) \X (0..(MaxP - 1)) \X (1..MaxP) :
              c[1] < c[3] /\ c[2] < c[3]}

\* Every Point the constructor returns for the curve, over Coords(p).
Constructible(a, b, p) ==
    {r.val : r \in {q \in {Point_init(x, y, a, b, p) :
                              x \in OptCoords(p), y \in OptCoords(p)} :
                       ~Raised(q)}}

---------------------------------------------------------------------------
(* Specification of the Point operations: the caller constructs a point on *)
(* a curve, applies negation, addition or scalar multiplication to the     *)
(* point it holds, and takes the result as the operand of the next call.   *)

Idle == <<>>

Init ==
    /\ op = "init"
    /\ args = <<>>
    /\ ret = Return(None)
    /\ \E c \in Curves : acc = Infinity(c[1], c[2], c[3])
    /\ pc = Idle /\ G = Idle /\ current_point = Idle /\ order = 0

\* The caller is between two calls.
Holding == op \in {"init", "hold"}

\* Point(x, y, a, b, p)
MakePoint ==
    /\ op = "init"
    /\ \E x \in OptCoords(acc.p), y \in OptCoords(acc.p) :
          /\ args' = <<x, y, acc.a, acc.b, acc.p>>
          /\ ret' = Point_init(x, y, acc.a, acc.b, acc.p)
    /\ op' = "Point"
    /\ UNCHANGED <<acc, pc, G, current_point, order>>

\* -P
Neg ==
    /\ Holding
    /\ op' = "neg"
    /\ args' = <<acc>>
    /\ ret' = Point_neg(acc)
    /\ UNCHANGED <<acc, pc, G, current_point, order>>

\* P + Q, Q any point of the same curve
Add ==
    /\ Holding
    /\ \E Q \in Constructible(acc.a, acc.b, acc.p) :
          /\ args' = <<acc, Q>>
          /\ ret' = Point_add(acc, Q)
    /\ op' = "add"
    /\ UNCHANGED <<acc, pc, G, current_point, order>>

\* k * P
RMul ==
    /\ Holding
    /\ \E k \in (-1)..MaxK :
          /\ args' = <<k, acc>>
          /\ ret' = Point_rmul(k, acc)
    /\ op' = "rmul"
    /\ UNCHANGED <<acc, pc, G, current_point, order>>

\* The caller keeps the Point a call returned; after an exception it still
\* holds the point it had.
Take ==
    /\ ~Holding
    /\ op' = "hold"
    /\ args' = <<>>
    /\ ret' = Return(None)
    /\ acc' = IF Raised(ret) THEN acc ELSE ret.val
    /\ UNCHANGED <<pc, G, current_point, order>>

Next == MakePoint \/ Neg \/ Add \/ RMul \/ Take

Spec == Init /\ [][Next]_vars

---------------------------------------------------------------------------
(* Specification of the modular-arithmetic functions: a caller applies one *)
(* of them to a pair of integers.                                          *)

ArithInit ==
    /\ op = "init"
    /\ args \in ((0 - MaxArg)..MaxArg) \X (1..MaxMod)
    /\ ret = Return(None)
    /\ acc = Idle /\ pc = Idle /\ G = Idle /\ current_point = Idle /\ order = 0

\* extended_gcd(a, b)
CallExtendedGcd ==
    /\ op = "init"
    /\ op' = "extended_gcd"
    /\ ret' = Return(extended_gcd(args[1], args[2]))
    /\ UNCHANGED <<args, acc, pc, G, current_point, order>>

\* mod_inv(a, m)
CallModInv ==
    /\ op = "init"
    /\ op' = "mod_inv"
    /\ ret' = mod_inv(args[1], args[2])
    /\ UNCHANGED <<args, acc, pc, G, current_point, order>>

\* legendre_symbol(a, p)
CallLegendre ==
    /\ op = "init"
    /\ op' = "legendre_symbol"
    /\ ret' = legendre_symbol(args[1], args[2])
    /\ UNCHANGED <<args, acc, pc, G, current_point, order>>

\* tonelli_shanks(n, p)
CallTonelli ==
    /\ op = "init"
    /\ op' = "tonelli_shanks"
    /\ ret' = tonelli_shanks(args[1], args[2])
    /\ UNCHANGED <<args, acc, pc, G, current_point, order>>

ArithNext == CallExtendedGcd \/ CallModInv \/ CallLegendre \/ CallTonelli

ArithSpec == ArithInit /\ [][ArithNext]_vars

---------------------------------------------------------------------------
(* Specification of find_order_brute_force(G), one loop iteration a step.  *)
(* The elapsed time the function returns beside the order is a clock       *)
(* reading and is left out.                                                *)

\* Every Point a caller can pass: any constructible point of any curve.
AllPoints == UNION {Constructible(c[1], c[2], c[3]) : c \in Curves}

OrderInit ==
    /\ op = "find_order_brute_force"
    /\ G \in AllPoints
    /\ args = <<G>>
    /\ ret = Return(None)
    /\ pc = "start"
    /\ current_point = Idle
    /\ order = 0
    /\ acc = Idle

\* max_iterations taken as p instead of 2 * p + 2.
max_iterations_p(p) == p

\* max_iterations taken as p + 1, the Hasse bound without its 2 * sqrt(p).
max_iterations_p_plus_one(p) == p + 1

\* max_iterations = 2 * G.p + 2
max_iterations(p) == 2 * p + 2

\* The start of find_order_brute_force with order initialised to 0.
OrderStart_order_zero ==
    /\ pc = "start"
    /\ IF G.x = None
       THEN /\ pc' = "done"
            /\ ret' = Return(Some(1))
            /\ UNCHANGED <<current_point, order>>
       ELSE /\ pc' = "loop"
            /\ current_point' = G
            /\ order' = 0
            /\ UNCHANGED ret
    /\ UNCHANGED <<op, args, acc, G>>

\* Lines 198-204: the point at infinity has order 1; otherwise initialise.
OrderStart ==
    /\ pc = "start"
    /\ IF G.x = None
       THEN /\ pc' = "done"
            /\ ret' = Return(Some(1))
            /\ UNCHANGED <<current_point, order>>
       ELSE /\ pc' = "loop"
            /\ current_point' = G
            /\ order' = 1
            /\ UNCHANGED ret
    /\ UNCHANGED <<op, args, acc, G>>

\* The loop "while order <= max_iterations ... else": one iteration adds G,
\* counts, and leaves the loop at the point at infinity; an exception of the
\* addition leaves the function; when the condition fails the else branch
\* returns None.
OrderStep ==
    /\ pc = "loop"
    /\ IF order <= max_iterations(G.p)
       THEN LET next_point == Point_add(current_point, G)
            IN IF Raised(next_point)
               THEN /\ pc' = "done"
                    /\ ret' = next_point
                    /\ UNCHANGED <<current_point, order>>
               ELSE /\ order' = order + 1
                    /\ current_point' = next_point.val
                    /\ IF Point_eq(next_point.val, Infinity(G.a, G.b, G.p))
                       THEN pc' = "done" /\ ret' = Return(Some(order + 1))
                       ELSE pc' = "loop" /\ UNCHANGED ret
       ELSE /\ pc' = "done"
            /\ ret' = Return(None)
            /\ UNCHANGED <<current_point, order>>
    /\ UNCHANGED <<op, args, acc, G>>

OrderNext == OrderStart \/ OrderStep

OrderSpec == OrderInit /\ [][OrderNext]_vars

---------------------------------------------------------------------------
(* Specification of the binary operations on two Points of any two curves: *)
(* the caller holds a Point and compares it with, or adds to it, any other *)
(* Point.                                                                  *)

\* Every Point of every curve with p in 1..MaxPairP.
PairPoints ==
    UNION {Constructible(c[1], c[2], c[3]) : c \in {d \in Curves : d[3] <= MaxPairP}}

PairInit ==
    /\ op = "init"
    /\ args = <<>>
    /\ ret = Return(None)
    /\ acc \in PairPoints
    /\ pc = Idle /\ G = Idle /\ current_point = Idle /\ order = 0

\* P == Q
Eq ==
    /\ op = "init"
    /\ \E Q \in PairPoints :
          /\ args' = <<acc, Q>>
          /\ ret' = Return(Point_eq(acc, Q))
    /\ op' = "eq"
    /\ UNCHANGED <<acc, pc, G, current_point, order>>

\* P + Q, Q a point of any curve
AddAny ==
    /\ op = "init"
    /\ \E Q \in PairPoints :
          /\ args' = <<acc, Q>>
          /\ ret' = Point_add(acc, Q)
    /\ op' = "add"
    /\ UNCHANGED <<acc, pc, G, current_point, order>>

PairNext == Eq \/ AddAny

PairSpec == PairInit /\ [][PairNext]_vars

---------------------------------------------------------------------------
(* Specification of the curve analysis: a caller applies validate_curve or *)
(* find_points_on_curve to the parameters of a curve.                      *)

CurveInit ==
    /\ op = "init"
    /\ \E c \in Curves, x_limit \in 0..(MaxP + 1), max_total_points \in 0..MaxTotal :
          /\ x_limit <= c[3] + 1
          /\ args = <<c[1], c[2], c[3], x_limit, max_total_points>>
    /\ ret = Return(None)
    /\ acc = Idle /\ pc = Idle /\ G = Idle /\ current_point = Idle /\ order = 0

\* validate_curve(a, b, p)
CallValidateCurve ==
    /\ op = "init"
    /\ op' = "validate_curve"
    /\ ret' = Return(validate_curve(args[1], args[2], args[3]))
    /\ UNCHANGED <<args, acc, pc, G, current_point, order>>

\* find_points_on_curve(a, b, p, x_limit, max_total_points)
CallFindPoints ==
    /\ op = "init"
    /\ op' = "find_points_on_curve"
    /\ ret' = Return(find_points_on_curve(args[1], args[2], args[3],
                                         args[4], args[5]))
    /\ UNCHANGED <<args, acc, pc, G, current_point, order>>

CurveNext == CallValidateCurve \/ CallFindPoints

CurveSpec == CurveInit /\ [][CurveNext]_vars

---------------------------------------------------------------------------
(* Reference notions the properties are stated with. *)

\* p is an odd prime.
IsOddPrime(p) == p > 2 /\ \A d \in 2..(p - 1) : p % d # 0

\* A Point as the data model describes it: the point at infinity, or affine
\* coordinates reduced modulo p.
Reduced(P) ==
    \/ P.x = None
    \/ P.x[1] \in 0..(P.p - 1) /\ P.y[1] \in 0..(P.p - 1)

\* The curve of P is non-singular over an odd prime.
OnValidCurve(P) == IsOddPrime(P.p) /\ validate_curve(P.a, P.b, P.p)[1]

\* The k-fold repeated addition O + P + ... + P, by Point.__add__.
RECURSIVE RepeatAdd(_, _)
RepeatAdd(k, P) ==
    IF k = 0 THEN Return(Infinity(P.a, P.b, P.p))
    ELSE LET r == RepeatAdd(k - 1, P)
         IN IF Raised(r) THEN r ELSE Point_add(r.val, P)

\* The outcome is a Point equal (Point.__eq__) to the point at infinity of
\* the curve of P.
IsInfinity(r, P) == ~Raised(r) /\ Point_eq(r.val, Infinity(P.a, P.b, P.p))

\* The outcome is a Point equal (Point.__eq__) to P.
IsPoint(r, P) == ~Raised(r) /\ Point_eq(r.val, P)

\* The two outcomes are Points that compare equal.
SamePoint(r1, r2) == ~Raised(r1) /\ ~Raised(r2) /\ Point_eq(r1.val, r2.val)

\* The greatest common divisor of a and m, for m >= 1.
Gcd(a, m) == CHOOSE d \in 1..m :
                 /\ a % d = 0 /\ m % d = 0
                 /\ \A e \in 1..m : (a % e = 0 /\ m % e = 0) => e <= d

\* The square roots of n modulo p among the residues.
Roots(n, p) == {r \in 0..(p - 1) : (r * r) % p = n % p}

---------------------------------------------------------------------------
(* Properties of the Point operations (Spec). *)

\* C1: inverse law. On a non-singular curve over an odd prime, for every Point
\* P the constructor accepts, P + (-P) does not raise and equals the point at
\* infinity of the curve.
C1_InverseLaw ==
    (/\ op = "add"
     /\ OnValidCurve(args[1])
     /\ Point_neg(args[1]) = Return(args[2]))
        => IsInfinity(ret, args[1])

\* C2: identity law. For every Point P (affine or the point at infinity) and
\* the point at infinity O of the same curve, P + O and O + P return P with
\* exactly its coordinates.
C2_IdentityLaw ==
    op = "add" =>
        /\ args[2].x = None /\ args[2].y = None => ret = Return(args[1])
        /\ args[1].x = None /\ args[1].y = None => ret = Return(args[2])

\* C2 witness: an affine point was added to the point at infinity and came back.
C2_Witness ==
    /\ op = "add"
    /\ args[1].x # None
    /\ args[2].x = None
    /\ ret = Return(args[1])

\* C3: commutativity. On a non-singular curve over an odd prime, for any two
\* valid points P, Q (the point at infinity, P = Q and P = -Q included),
\* P + Q equals Q + P.
C3_Commutative ==
    (/\ op = "add"
     /\ OnValidCurve(args[1])
     /\ Reduced(args[1])
     /\ Reduced(args[2]))
        => SamePoint(ret, Point_add(args[2], args[1]))

\* C3 witness: two affine points of different x were added on a valid curve
\* and the sum is affine.
C3_Witness ==
    /\ op = "add"
    /\ OnValidCurve(args[1])
    /\ Reduced(args[1]) /\ Reduced(args[2])
    /\ args[1].x # None /\ args[2].x # None
    /\ args[1].x # args[2].x
    /\ ~Raised(ret)
    /\ ret.val.x # None

\* C5: scalar distributivity. For every valid point P on a non-singular curve
\* over an odd prime and all k1, k2 >= 0, (k1 + k2) * P == k1 * P + k2 * P.
C5_ScalarDistributive ==
    (/\ op = "rmul"
     /\ args[1] >= 0
     /\ OnValidCurve(args[2])
     /\ Reduced(args[2]))
        => \A k1 \in 0..args[1] :
               LET A == Point_rmul(k1, args[2])
                   B == Point_rmul(args[1] - k1, args[2])
               IN /\ ~Raised(A) /\ ~Raised(B)
                  /\ SamePoint(ret, Point_add(A.val, B.val))

\* C5 witness: an affine valid point was multiplied by a scalar of at least 5
\* and the product is affine.
C5_Witness ==
    /\ op = "rmul"
    /\ args[1] >= 5
    /\ OnValidCurve(args[2])
    /\ Reduced(args[2])
    /\ args[2].x # None
    /\ ~Raised(ret)
    /\ ret.val.x # None

\* C6: double-and-add equals repeated addition. For every k >= 0: 0 * P is the
\* point at infinity for any P, k * O is the point at infinity, and for every
\* valid point P on a non-singular curve over an odd prime k * P equals the
\* k-fold repeated addition of P; in particular 1 * P == P.
C6_DoubleAndAdd ==
    (op = "rmul" /\ args[1] >= 0) =>
        /\ args[1] = 0 => IsInfinity(ret, args[2])
        /\ args[2].x = None => IsInfinity(ret, args[2])
        /\ (OnValidCurve(args[2]) /\ Reduced(args[2])) =>
               /\ SamePoint(ret, RepeatAdd(args[1], args[2]))
               /\ args[1] = 1 => IsPoint(ret, args[2])

\* C6 witness: a scalar of at least 6 with two or more one bits multiplied an
\* affine valid point, and the product is affine and differs from the point.
C6_Witness ==
    /\ op = "rmul"
    /\ args[1] \in {6, 7}
    /\ OnValidCurve(args[2])
    /\ Reduced(args[2])
    /\ args[2].x # None
    /\ ~Raised(ret)
    /\ ret.val.x # None
    /\ ret.val # args[2]

\* C11: Point(x, y, a, b, p) succeeds if and only if both coordinates are
\* absent (for any p), or both are present, p > 2 and
\* y * y mod p = (x^3 + a * x + b) mod p; it then returns the Point of exactly
\* these five values, and in every other case (p <= 2 with a coordinate
\* present, exactly one coordinate absent, off-curve coordinates) it raises
\* and no Point is produced.
C11_ConstructionIff ==
    op = "Point" =>
        LET x == args[1]
            y == args[2]
            a == args[3]
            b == args[4]
            p == args[5]
            accepted ==
                \/ x = None /\ y = None
                \/ /\ x # None /\ y # None
                   /\ p > 2
                   /\ (y[1] * y[1]) % p
                          = (x[1] * x[1] * x[1] + a * x[1] + b) % p
        IN /\ accepted => ret = Return(PointRec(x, y, a, b, p))
           /\ ~accepted => Raised(ret) /\ ret.err = "ValueError"

\* C11 witness: on-curve affine coordinates were rejected because p <= 2.
C11_Witness ==
    /\ op = "Point"
    /\ args[1] # None /\ args[2] # None
    /\ args[5] <= 2
    /\ is_on_curve(PointRec(args[1], args[2], args[3], args[4], args[5]))
    /\ Raised(ret)

\* C11 second case: an affine point was accepted.
C11_AffineAccepted ==
    /\ op = "Point"
    /\ args[1] # None /\ args[2] # None
    /\ ~Raised(ret)

\* C11 third case: exactly one coordinate absent was rejected for p > 2.
C11_HalfAbsentRejected ==
    /\ op = "Point"
    /\ args[1] = None /\ args[2] # None
    /\ args[5] > 2
    /\ Raised(ret)

\* C12: Point invariant. Every Point that construction, negation, addition or
\* scalar multiplication returns is the point at infinity or an affine pair
\* (x, y) with 0 <= x < p, 0 <= y < p and y * y = x^3 + a * x + b (mod p).
C12_PointInvariant ==
    (op \in {"Point", "neg", "add", "rmul"} /\ ~Raised(ret)) =>
        LET P == ret.val
        IN \/ P.x = None /\ P.y = None
           \/ /\ P.x # None /\ P.y # None
              /\ P.x[1] \in 0..(P.p - 1)
              /\ P.y[1] \in 0..(P.p - 1)
              /\ (P.y[1] * P.y[1]) % P.p
                     = (P.x[1] * P.x[1] * P.x[1] + P.a * P.x[1] + P.b) % P.p

\* C20: for any two Points the constructor accepts on the same curve over an
\* odd prime p, P + Q never asks mod_inv for the inverse of a denominator
\* that is 0 mod p, so the addition never raises the no-inverse error; and
\* doubling a point whose y is 0 mod p returns the point at infinity.
C20_NoZeroDenominator ==
    (op = "add" /\ IsOddPrime(args[1].p)) =>
        /\ ~(Raised(ret) /\ ret.msg = "no inverse")
        /\ (/\ args[1].x # None
            /\ args[1] = args[2]
            /\ args[1].y[1] % args[1].p = 0) => IsInfinity(ret, args[1])

\* C20 case reached: a point with y = 0 on a curve over an odd prime was
\* doubled and the point at infinity came back.
C20_DoublingReached ==
    /\ op = "add"
    /\ IsOddPrime(args[1].p)
    /\ args[1].x # None
    /\ args[1] = args[2]
    /\ args[1].y = Some(0)
    /\ IsInfinity(ret, args[1])

\* C21: associativity. On a non-singular curve over an odd prime p, for any
\* three points P, Q, R with coordinates in 0..p-1 (the point at infinity
\* included), (P + Q) + R equals P + (Q + R) and neither side raises.
C21_Associative ==
    (/\ op = "add"
     /\ OnValidCurve(args[1])
     /\ Reduced(args[1])
     /\ Reduced(args[2]))
        => /\ ~Raised(ret)
           /\ \A R \in {T \in Constructible(args[1].a, args[1].b, args[1].p) :
                          Reduced(T)} :
                  LET QR == Point_add(args[2], R)
                  IN /\ ~Raised(QR)
                     /\ SamePoint(Point_add(ret.val, R),
                                  Point_add(args[1], QR.val))

\* C21 witness: on a non-singular curve over an odd prime two affine points
\* P, Q with an affine sum were added, and some affine R has P + Q + R affine
\* with Q + R affine and none of the three x coordinates equal.
C21_Witness ==
    /\ op = "add"
    /\ OnValidCurve(args[1])
    /\ Reduced(args[1]) /\ Reduced(args[2])
    /\ args[1].x # None /\ args[2].x # None
    /\ args[1].x # args[2].x
    /\ ~Raised(ret) /\ ret.val.x # None
    /\ \E R \in {T \in Constructible(args[1].a, args[1].b, args[1].p) :
                   Reduced(T)} :
           /\ R.x # None
           /\ R.x # args[1].x /\ R.x # args[2].x
           /\ ~Raised(Point_add(ret.val, R))
           /\ ~Raised(Point_add(args[2], R))
           /\ Point_add(ret.val, R).val.x # None
           /\ Point_add(args[2], R).val.x # None

---------------------------------------------------------------------------
(* Properties of the binary operations on any two Points (PairSpec). *)

\* C13: Point equality. Two points compare equal if and only if both are the
\* point at infinity, or all of x, y, a, b, p match exactly; in particular two
\* points at infinity compare equal, and two affine points differing in any
\* one of the five fields compare unequal.
C13_Equality ==
    op = "eq" =>
        LET P == args[1]
            Q == args[2]
        IN ret.val <=>
               \/ P.x = None /\ P.y = None /\ Q.x = None /\ Q.y = None
               \/ /\ P.x = Q.x /\ P.y = Q.y
                  /\ P.a = Q.a /\ P.b = Q.b /\ P.p = Q.p

\* C13 case reached: two affine points that differ in the modulus p only were
\* compared and found unequal.
C13_DifferInPOnly ==
    /\ op = "eq"
    /\ args[1].x # None
    /\ args[1].x = args[2].x /\ args[1].y = args[2].y
    /\ args[1].a = args[2].a /\ args[1].b = args[2].b
    /\ args[1].p # args[2].p
    /\ ret = Return(FALSE)

\* C14: P + Q raises the curve-mismatch error whenever the (a, b, p) of P and
\* Q differ in any component, also when P or Q or both are the point at
\* infinity (the test precedes every other case of the group law); when
\* (a, b, p) match it never raises that error.
C14_CurveMismatch ==
    op = "add" =>
        LET P == args[1]
            Q == args[2]
            mismatch == P.a # Q.a \/ P.b # Q.b \/ P.p # Q.p
        IN /\ mismatch => ret = Raise("ValueError", "different curves")
           /\ ~mismatch => ~(Raised(ret) /\ ret.msg = "different curves")

\* C14 witness: the point at infinity of one curve was added to an affine
\* point of a curve that differs in b only, and the error was raised.
C14_Witness ==
    /\ op = "add"
    /\ args[1].x = None
    /\ args[2].x # None
    /\ args[1].a = args[2].a /\ args[1].p = args[2].p
    /\ args[1].b # args[2].b
    /\ ret = Raise("ValueError", "different curves")

\* C14 second case: two affine points of the same curve were added and the
\* addition raised an error that is not the curve-mismatch error.
C14_OtherErrorReached ==
    /\ op = "add"
    /\ args[1].a = args[2].a /\ args[1].b = args[2].b /\ args[1].p = args[2].p
    /\ Raised(ret)
    /\ ret.msg # "different curves"

---------------------------------------------------------------------------
(* Properties of the curve analysis (CurveSpec). *)

\* The right-hand side x^3 + a * x + b of the curve equation modulo p.
CurveRhs(x, a, b, p) == (x * x * x + a * x + b) % p

\* The pairs <<x, r>> for x = from, ..., x_limit - 1 in increasing x and, for
\* each x, every square root r of the right-hand side in ascending order.
RECURSIVE OnCurvePairs(_, _, _, _, _)
OnCurvePairs(from, x_limit, a, b, p) ==
    IF from >= x_limit THEN <<>>
    ELSE LET rs == sorted(Roots(CurveRhs(from, a, b, p), p))
         IN [i \in 1..Len(rs) |-> <<from, rs[i]>>]
                \o OnCurvePairs(from + 1, x_limit, a, b, p)

\* The number of entries find_points_on_curve has appended before it comes to
\* x, if it does.
RECURSIVE AppendedBefore(_, _, _, _)
AppendedBefore(x, a, b, p) ==
    IF x = 0 THEN 0
    ELSE LET roots == tonelli_shanks((pow(x - 1, 3, p) + a * (x - 1) + b) % p, p)
         IN AppendedBefore(x - 1, a, b, p)
                + (IF Raised(roots) THEN 0 ELSE Len(roots.val))

\* C15: find_points_on_curve never returns more than max_total_points entries,
\* for every max_total_points (0 and 1 included) and every x_limit, and the
\* two returned lists have the same length.
C15_CappedResult ==
    op = "find_points_on_curve" =>
        /\ Len(ret.val[1]) = Len(ret.val[2])
        /\ Len(ret.val[1]) <= args[5]

\* C15 case reached: a cap of at least 2 cut the result to exactly the cap.
C15_CapReached ==
    /\ op = "find_points_on_curve"
    /\ args[5] >= 2
    /\ Len(ret.val[1]) = args[5]
    /\ Len(OnCurvePairs(0, args[4], args[1], args[2], args[3])) > args[5]

\* C16: for an odd prime p, find_points_on_curve returns the pairs (x, r) for
\* x = 0, ..., x_limit - 1 in increasing x and, for each x, every square root
\* r of (x^3 + a * x + b) mod p in ascending order, cut short only when the
\* cap max_total_points is reached: the result is an initial part of that
\* enumeration (so every returned pair is on the curve and no on-curve pair
\* before the stopping point is omitted), and it is the whole enumeration
\* unless it has at least max_total_points entries.
C16_PointsEnumerated ==
    (op = "find_points_on_curve" /\ IsOddPrime(args[3])) =>
        LET xs == ret.val[1]
            ys == ret.val[2]
            a == args[1]
            b == args[2]
            p == args[3]
            full == OnCurvePairs(0, args[4], a, b, p)
        IN /\ Len(xs) = Len(ys)
           /\ Len(xs) <= Len(full)
           /\ \A i \in 1..Len(xs) :
                  /\ <<xs[i], ys[i]>> = full[i]
                  /\ (ys[i] * ys[i]) % p
                         = (xs[i] * xs[i] * xs[i] + a * xs[i] + b) % p
           /\ Len(xs) < Len(full) => Len(xs) >= args[5]

\* C16 witness: for an odd prime the result was cut by a cap of at least 3 and
\* holds two roots of one x.
C16_Witness ==
    /\ op = "find_points_on_curve"
    /\ IsOddPrime(args[3])
    /\ args[5] >= 3
    /\ Len(ret.val[1]) = args[5]
    /\ Len(OnCurvePairs(0, args[4], args[1], args[2], args[3])) > args[5]
    /\ \E i \in 1..(Len(ret.val[1]) - 1) : ret.val[1][i] = ret.val[1][i + 1]

\* C16 second case: for an odd prime the whole enumeration, of at least 4
\* pairs, was returned below the cap.
C16_WholeReached ==
    /\ op = "find_points_on_curve"
    /\ IsOddPrime(args[3])
    /\ Len(ret.val[1]) >= 4
    /\ Len(ret.val[1]) < args[5]

\* C17: validate_curve(a, b, p) returns invalid when p <= 2, invalid when
\* (4 * a^3 + 27 * b^2) mod p = 0, and valid in every other case; the failed
\* primality test is not fatal, so for p > 2 the boolean depends on the
\* discriminant only.
C17_ValidateCurve ==
    op = "validate_curve" =>
        LET a == args[1]
            b == args[2]
            p == args[3]
        IN ret.val[1] <=>
               (p > 2 /\ (4 * a * a * a + 27 * b * b) % p # 0)

\* C17 witness: a composite p > 2 failed the primality test (the warning was
\* printed) and the curve was returned valid.
C17_Witness ==
    /\ op = "validate_curve"
    /\ args[3] > 2
    /\ ~IsOddPrime(args[3])
    /\ ret.val[3]
    /\ ret.val[1]

\* C17 second case: a singular curve over an odd prime was returned invalid.
C17_SingularReached ==
    /\ op = "validate_curve"
    /\ IsOddPrime(args[3])
    /\ ~ret.val[3]
    /\ ~ret.val[1]

\* C18: error propagation. No core operation catches a precondition error,
\* skips the failing step or returns a default result: when tonelli_shanks
\* raises for an x that find_points_on_curve comes to, find_points_on_curve
\* raises that error to its caller.
C18_ErrorPropagation ==
    op = "find_points_on_curve" =>
        LET a == args[1]
            b == args[2]
            p == args[3]
        IN \A x \in 0..(args[4] - 1) :
               LET roots == tonelli_shanks((pow(x, 3, p) + a * x + b) % p, p)
                   n == AppendedBefore(x, a, b, p)
               IN (/\ p > 2
                   /\ n = 0 \/ n < args[5]
                   /\ Raised(roots)
                   /\ \A w \in 0..(x - 1) :
                          ~Raised(tonelli_shanks((pow(w, 3, p) + a * w + b) % p, p)))
                      => ret = roots

---------------------------------------------------------------------------
(* Properties of find_order_brute_force (OrderSpec). *)

RECURSIVE ReachesInfinity(_, _)
ReachesInfinity(cur, left) ==
    IF left = 0 THEN FALSE
    ELSE LET nxt == Point_add(cur, G)
         IN IF Raised(nxt) THEN FALSE
            ELSE IF Point_eq(nxt.val, Infinity(G.a, G.b, G.p)) THEN TRUE
            ELSE ReachesInfinity(nxt.val, left - 1)

\* What C7 says of a state of the search for a G that is not the point at
\* infinity: the count of additions is within the bound, a returned order is at
\* most 2p + 2, and None is returned exactly when the accumulator has not
\* reached the point at infinity within 2p + 2 additions.
BoundedState ==
    G.x # None =>
        /\ pc \in {"start", "loop", "done"}
        /\ pc = "loop" => order \in 1..(2 * G.p + 3)
        /\ (pc = "done" /\ ~Raised(ret)) =>
              /\ ret.val # None => ret.val[1] <= 2 * G.p + 2
              /\ ret.val = None <=> ~ReachesInfinity(G, 2 * G.p + 2)

\* C7: the search is bounded by max_iterations = 2p + 2. For a G that is not
\* the point at infinity it terminates (every iteration either ends the search
\* or counts one more addition, and the count stays within 2p + 3), it never
\* returns an order greater than 2p + 2, and it returns None (a result, not an
\* exception) exactly when the accumulator has not reached the point at
\* infinity within 2p + 2 additions.
C7_BoundedSearch ==
    /\ []BoundedState
    /\ [][pc = "loop" => (pc' = "done" \/ (pc' = "loop" /\ order' = order + 1))]_vars

\* C7 witness: the search returned an order of at least 2p for an affine point.
C7_Witness ==
    /\ pc = "done"
    /\ G.x # None
    /\ ~Raised(ret) /\ ret.val # None
    /\ ret.val[1] >= 2 * G.p

\* C22: the cap is never hit on valid input. For every odd prime p, every
\* non-singular curve and every point G on it other than the point at
\* infinity, with coordinates in 0..p-1, the search reaches the point at
\* infinity before the cap of 2p + 2 iterations: while it runs the loop
\* condition order <= 2p + 2 holds and no addition raises, and when it is
\* done it has returned an integer n with 2 <= n <= 2p + 2, never None.
C22_CapNeverHit ==
    (/\ G.x # None
     /\ Reduced(G)
     /\ OnValidCurve(G))
        => /\ pc = "loop" =>
                  /\ order \in 1..(2 * G.p + 2)
                  /\ ReachesInfinity(current_point, 2 * G.p + 3 - order)
           /\ pc = "done" =>
                  /\ ~Raised(ret)
                  /\ ret.val # None
                  /\ ret.val[1] \in 2..(2 * G.p + 2)

\* C22 witness: on a non-singular curve over an odd prime the search returned
\* an order greater than p + 2 for an affine point with reduced coordinates.
C22_Witness ==
    /\ pc = "done"
    /\ G.x # None
    /\ Reduced(G)
    /\ OnValidCurve(G)
    /\ ~Raised(ret) /\ ret.val # None
    /\ ret.val[1] > G.p + 2

---------------------------------------------------------------------------
(* Properties of the modular arithmetic (ArithSpec). *)

\* C8: for every odd prime p and every a with 1 <= a < p, mod_inv(a, p)
\* returns r with 0 <= r < p and (r * a) mod p = 1.
C8_ModInvPrime ==
    (/\ op = "mod_inv"
     /\ IsOddPrime(args[2])
     /\ args[1] \in 1..(args[2] - 1))
        => /\ ~Raised(ret)
           /\ ret.val \in 0..(args[2] - 1)
           /\ (ret.val * args[1]) % args[2] = 1

\* C8 witness: mod_inv returned an inverse other than a itself for an odd
\* prime of at least 11.
C8_Witness ==
    /\ op = "mod_inv"
    /\ IsOddPrime(args[2]) /\ args[2] >= 11
    /\ args[1] \in 2..(args[2] - 2)
    /\ ~Raised(ret)
    /\ ret.val # args[1]

\* C9: for every integer a (negative, zero or >= m included) and every
\* modulus m >= 2, mod_inv(a, m) raises if and only if gcd(a, m) # 1; when
\* gcd(a, m) = 1 it returns a value.
C9_ModInvFailsIffNotCoprime ==
    (op = "mod_inv" /\ args[2] >= 2) =>
        (Raised(ret) <=> Gcd(args[1], args[2]) # 1)

\* C10: for every odd prime p and every integer n, tonelli_shanks(n, p)
\* returns exactly the r in 0..p-1 with r * r mod p = n mod p, without
\* duplicates and ascending: [0] when p divides n, [] for a non-residue, and
\* otherwise two roots r1 < r2 with r1 + r2 = p.
C10_ModSqrtRoots ==
    (op = "tonelli_shanks" /\ IsOddPrime(args[2])) =>
        /\ ~Raised(ret)
        /\ LET s == ret.val
               n == args[1]
               p == args[2]
           IN /\ {s[i] : i \in DOMAIN s} = Roots(n, p)
              /\ \A i, j \in DOMAIN s : i < j => s[i] < s[j]
              /\ n % p = 0 => s = <<0>>
              /\ Roots(n, p) = {} => s = <<>>
              /\ (n % p # 0 /\ Roots(n, p) # {}) =>
                     Len(s) = 2 /\ s[1] < s[2] /\ s[1] + s[2] = p

\* C10 witness: for a prime p with p % 4 = 1 the main loop ran (t # 1 at its
\* entry) and two roots were returned.
C10_Witness ==
    /\ op = "tonelli_shanks"
    /\ IsOddPrime(args[2])
    /\ args[2] % 4 = 1
    /\ pow(args[1] % args[2], factor_twos(args[2] - 1, 0)[1], args[2]) # 1
    /\ ~Raised(ret)
    /\ Len(ret.val) = 2

\* C10 second case: the p % 4 = 3 shortcut returned two roots.
C10_ShortcutReached ==
    /\ op = "tonelli_shanks"
    /\ IsOddPrime(args[2])
    /\ args[2] % 4 = 3
    /\ ~Raised(ret)
    /\ Len(ret.val) = 2

\* C19: legendre_symbol(a, p) returns only values in {1, 0, -1}, and
\* legendre_symbol and tonelli_shanks raise the invalid-modulus error for every
\* modulus p that is not an odd prime (p <= 2 and composite p > 2) instead of
\* returning a value.
C19_InvalidModulus ==
    /\ op = "legendre_symbol" =>
           /\ ~Raised(ret) => ret.val \in {1, 0, -1}
           /\ ~IsOddPrime(args[2]) =>
                  ret = Raise("ValueError", "p must be an odd prime")
    /\ op = "tonelli_shanks" =>
           (~IsOddPrime(args[2]) =>
                ret = Raise("ValueError", "p must be an odd prime"))

\* C19 case reached: legendre_symbol raised the invalid-modulus error for a
\* modulus p <= 2.
C19_SmallModulusRejected ==
    /\ op = "legendre_symbol"
    /\ args[2] <= 2
    /\ ret = Raise("ValueError", "p must be an odd prime")

====
